---- MODULE Spec2Model ----
(***************************************************************************)
(* ArXivist: the SQLAlchemy paper repository, the unit of work around it   *)
(* and the adaptive fetch of fetch_and_store_latest_papers.                *)
(*                                                                         *)
(* Python values.  A str is a sequence of tokens, a token being "." or a   *)
(* chunk of characters holding no dot ("cs.AI" is <<"cs", ".", "AI">>), so *)
(* that splitting and joining are computed.  None is a value outside the   *)
(* strings.  arxiv ids and titles are only ever compared with each other   *)
(* and are plain strings; dates are numbers YYYYMMDD.                      *)
(***************************************************************************)
EXTENDS Integers, Sequences, FiniteSets, TLC

None == <<"<None>">>
\* None where an object (a Paper, a Category) is expected
NoneObject == [none |-> TRUE]
\* limit=None
NoLimit == 0 - 1
\* no exception
NoError == "NoError"
\* categories=None (a list of strings never holds None)
NoneList == <<None>>
Dot == "."

(***************************************************************************)
(* Helpers on sequences.                                                   *)
(***************************************************************************)
Range(s) == {s[i] : i \in 1..Len(s)}

SeqMax(s) == IF s = <<>> THEN 0 ELSE CHOOSE m \in Range(s) : \A x \in Range(s) : x <= m

\* the sub-sequence of the rows that satisfy Keep, order kept
RECURSIVE SelectRows(_, _)
SelectRows(rows, keep) ==
    IF rows = <<>> THEN <<>>
    ELSE (IF Head(rows).id \in keep THEN <<Head(rows)>> ELSE <<>>)
         \o SelectRows(Tail(rows), keep)

\* every enumeration without repetition of a finite set
Perms(S) == {f \in [1..Cardinality(S) -> S] : \A i, j \in 1..Cardinality(S) : f[i] = f[j] => i = j}

(***************************************************************************)
(* Domain model (domain/model.py).                                         *)
(***************************************************************************)
\* Category(archive, subcategory, archive_name, category_name, description)
Category(archive, subcategory, archive_name, category_name, description) ==
    [archive |-> archive, subcategory |-> subcategory, archive_name |-> archive_name,
     category_name |-> category_name, description |-> description]

\* Category(archive, subcategory): the descriptive fields default to None
BareCategory(archive, subcategory) == Category(archive, subcategory, None, None, None)

\* a faulty __eq__ that compares every field, as a dataclass does by default
Category_eq_all_fields(c1, c2) == c1 = c2

\* Category.__eq__: archive and subcategory alone
CategoryEq(c1, c2) == c1.archive = c2.archive /\ c1.subcategory = c2.subcategory

\* the (archive, subcategory) pair Category.__hash__ hashes
CategoryKey(c) == <<c.archive, c.subcategory>>

\* str.split(".")
RECURSIVE SplitDot(_)
SplitDot(s) ==
    IF \A i \in 1..Len(s) : s[i] # Dot THEN <<s>>
    ELSE LET i == CHOOSE k \in 1..Len(s) : s[k] = Dot /\ \A j \in 1..(k - 1) : s[j] # Dot
         IN  <<SubSeq(s, 1, i - 1)>> \o SplitDot(SubSeq(s, i + 1, Len(s)))

\* Category.split_string: (parts[0], parts[1] if len(parts) > 1 else None)
split_string(category_string) ==
    LET parts == SplitDot(category_string)
    IN  <<parts[1], IF Len(parts) > 1 THEN parts[2] ELSE None>>

\* Category.from_string
from_string(category_string) ==
    BareCategory(split_string(category_string)[1], split_string(category_string)[2])

\* a faulty identifier that formats the subcategory whatever it is
identifier_always_dotted(c) == c.archive \o <<Dot>> \o c.subcategory

\* Category.identifier: "archive.subcategory" if subcategory (truthy) else archive
identifier(c) ==
    IF c.subcategory # None /\ c.subcategory # <<>>
    THEN c.archive \o <<Dot>> \o c.subcategory
    ELSE c.archive

\* Paper(arxiv_id, title, abstract, published_at, categories)
Paper(arxiv_id, title, abstract, published_at, category_list) ==
    [arxiv_id |-> arxiv_id, title |-> title, abstract |-> abstract,
     published_at |-> published_at, categories |-> category_list]

(***************************************************************************)
(* The stored tables (infrastructure/sql_alchemy_orm.py).  A store is      *)
(* [cats, papers]: the category rows and the paper rows in id order; a     *)
(* paper row holds the ids of its category rows (the paper_category        *)
(* association).                                                           *)
(***************************************************************************)
EmptyStore == [cats |-> <<>>, papers |-> <<>>]

\* autoincrement primary key: one more than the largest id of the table
NextId(rows) == SeqMax([i \in 1..Len(rows) |-> rows[i].id]) + 1

\* a faulty WHERE clause that takes a None subcategory for any subcategory
CategoryFilter_wildcard(row, archive, subcategory) ==
    /\ row.archive = archive
    /\ subcategory # None => row.subcategory = subcategory

\* the WHERE clause of the category queries: archive == a AND
\* (subcategory IS NULL if s is None else subcategory == s)
CategoryFilter(row, archive, subcategory) ==
    /\ row.archive = archive
    /\ IF subcategory = None THEN row.subcategory = None
       ELSE row.subcategory # None /\ row.subcategory = subcategory

\* query(CategoryORM).filter(...).first(): the positions of the matching rows
CategoryHits(store, archive, subcategory) ==
    {i \in 1..Len(store.cats) : CategoryFilter(store.cats[i], archive, subcategory)}

FirstHit(hits) == CHOOSE i \in hits : \A j \in hits : i <= j

\* _to_category_orm
to_category_orm(category, id) ==
    [id |-> id, archive |-> category.archive, subcategory |-> category.subcategory,
     archive_name |-> category.archive_name, category_name |-> category.category_name,
     description |-> category.description]

\* _to_category
to_category(row) ==
    Category(row.archive, row.subcategory, row.archive_name, row.category_name, row.description)

\* a faulty upsert_category that adds a row whether or not one is found
upsert_category_always_adds(store, category) ==
    [store EXCEPT !.cats = Append(@, to_category_orm(category, NextId(store.cats)))]

\* upsert_category
upsert_category(store, category) ==
    LET hits == CategoryHits(store, category.archive, category.subcategory)
    IN  IF hits # {}
        THEN [store EXCEPT !.cats[FirstHit(hits)] =
                 [@ EXCEPT !.archive_name = category.archive_name,
                           !.category_name = category.category_name,
                           !.description = category.description]]
        ELSE [store EXCEPT !.cats = Append(@, to_category_orm(category, NextId(store.cats)))]

\* get_category: the Category, or None
get_category(store, archive, subcategory) ==
    LET hits == CategoryHits(store, archive, subcategory)
    IN  IF hits # {} THEN to_category(store.cats[FirstHit(hits)]) ELSE NoneObject

\* delete_category raises CategoryNotFoundError when no row matches
delete_category_raises(store, archive, subcategory) ==
    CategoryHits(store, archive, subcategory) = {}

\* delete_category: the row goes, and with it its association rows
delete_category(store, archive, subcategory) ==
    LET gone == store.cats[FirstHit(CategoryHits(store, archive, subcategory))].id
    IN  [cats   |-> SelectRows(store.cats, {r.id : r \in Range(store.cats)} \ {gone}),
         papers |-> [i \in 1..Len(store.papers) |->
                        [store.papers[i] EXCEPT !.categories = @ \ {gone}]]]

\* list_categories(limit): ORDER BY id LIMIT limit; limit=None is no limit
list_categories(store, limit) ==
    LET n == IF limit = NoLimit THEN Len(store.cats)
             ELSE IF limit < Len(store.cats) THEN limit ELSE Len(store.cats)
    IN  [i \in 1..n |-> to_category(store.cats[i])]

\* upsert_paper, the query of lines 120-134: the rows matching one of the
\* paper's categories.  or_() of no clause renders no WHERE clause at all, so
\* a paper without categories selects every category row.
existing_category_orms(store, paper) ==
    IF paper.categories = <<>>
    THEN {r.id : r \in Range(store.cats)}
    ELSE {r.id : r \in {x \in Range(store.cats) :
                          \E i \in 1..Len(paper.categories) :
                              CategoryFilter(x, paper.categories[i].archive,
                                             paper.categories[i].subcategory)}}

\* a faulty upsert_paper that takes every category of the paper for missing
missing_categories_all(store, paper) ==
    {paper.categories[i] : i \in {k \in 1..Len(paper.categories) :
        \A j \in 1..(k - 1) : ~CategoryEq(paper.categories[j], paper.categories[k])}}

\* upsert_paper, lines 137-140: set(paper.categories) - {rows found}, a set
\* under Category.__eq__; of equal categories the first of the list stays
missing_categories(store, paper) ==
    LET found == {CategoryKey(r) : r \in {x \in Range(store.cats) :
                                            x.id \in existing_category_orms(store, paper)}}
        first == {i \in 1..Len(paper.categories) :
                     \A j \in 1..(i - 1) : ~CategoryEq(paper.categories[j], paper.categories[i])}
    IN  {paper.categories[i] : i \in {k \in first : CategoryKey(paper.categories[k]) \notin found}}

\* the iteration orders of the set missing_categories (a Python set of
\* hashed strings has no fixed order)
missing_orders(store, paper) == Perms(missing_categories(store, paper))

\* upsert_paper, lines 141-146: one new row per missing category, in the
\* order the set is iterated
RECURSIVE add_missing(_, _)
add_missing(cats, order) ==
    IF Len(order) = 0 THEN cats
    ELSE add_missing(Append(cats, to_category_orm(order[1], NextId(cats))),
                     [i \in 1..(Len(order) - 1) |-> order[i + 1]])

\* a faulty query that leaves the filter out
any_paper_row(store, arxiv_id) == 1..Len(store.papers)

\* query(PaperORM).filter_by(arxiv_id=...).first()
PaperHits(store, arxiv_id) == {i \in 1..Len(store.papers) : store.papers[i].arxiv_id = arxiv_id}

\* _to_paper_orm
to_paper_orm(paper, category_orms, id) ==
    [id |-> id, arxiv_id |-> paper.arxiv_id, title |-> paper.title, abstract |-> paper.abstract,
     published_at |-> paper.published_at, categories |-> category_orms]

\* a faulty upsert_paper that adds a row whether or not one is found
write_paper_always_adds(store, paper, category_orms) ==
    [store EXCEPT !.papers = Append(@, to_paper_orm(paper, category_orms, NextId(store.papers)))]

\* upsert_paper, lines 148-156: update the row found, or add one
write_paper(store, paper, category_orms) ==
    LET hits == PaperHits(store, paper.arxiv_id)
    IN  IF hits # {}
        THEN [store EXCEPT !.papers[FirstHit(hits)] =
                 [@ EXCEPT !.title = paper.title, !.abstract = paper.abstract,
                           !.published_at = paper.published_at,
                           !.categories = category_orms]]
        ELSE [store EXCEPT !.papers =
                 Append(@, to_paper_orm(paper, category_orms, NextId(store.papers)))]

\* upsert_category for each category of a list, in order
RECURSIVE upsert_categories(_, _)
upsert_categories(store, category_list) ==
    IF category_list = <<>> THEN store
    ELSE upsert_categories(upsert_category(store, Head(category_list)), Tail(category_list))

\* a faulty upsert_paper that writes the categories of the paper over the
\* stored ones
upsert_paper_overwriting(store, paper, order) ==
    LET cats     == upsert_categories(store, paper.categories).cats
        existing == existing_category_orms([store EXCEPT !.cats = cats], paper)
    IN  write_paper([store EXCEPT !.cats = cats], paper, existing)

\* upsert_paper(paper), the missing categories added in the given order
upsert_paper(store, paper, order) ==
    LET existing == existing_category_orms(store, paper)
        cats     == add_missing(store.cats, order)
        added    == {r.id : r \in Range(cats)} \ {r.id : r \in Range(store.cats)}
    IN  write_paper([store EXCEPT !.cats = cats], paper, existing \cup added)

\* _to_paper; the categories of a row are loaded in no stated order and are
\* given here as the set of the Category values
to_paper(store, row) ==
    [arxiv_id |-> row.arxiv_id, title |-> row.title, abstract |-> row.abstract,
     published_at |-> row.published_at,
     categories |-> {to_category(c) : c \in {x \in Range(store.cats) : x.id \in row.categories}}]

\* get_paper: the Paper, or None
get_paper(store, arxiv_id) ==
    LET hits == PaperHits(store, arxiv_id)
    IN  IF hits # {} THEN to_paper(store, store.papers[FirstHit(hits)]) ELSE NoneObject

\* delete_paper raises PaperNotFoundError when no row matches
delete_paper_raises(store, arxiv_id) == PaperHits(store, arxiv_id) = {}

\* a faulty delete_paper that deletes the categories of the paper with it
delete_paper_and_categories(store, arxiv_id) ==
    LET row == store.papers[FirstHit(PaperHits(store, arxiv_id))]
        left == {r.id : r \in Range(store.cats)} \ row.categories
    IN  [cats   |-> SelectRows(store.cats, left),
         papers |-> [i \in 1..(Len(store.papers) - 1) |->
                        LET r == SelectRows(store.papers,
                                            {x.id : x \in Range(store.papers)} \ {row.id})[i]
                        IN  [r EXCEPT !.categories = @ \cap left]]]

\* delete_paper: the row goes, and with it its association rows
delete_paper(store, arxiv_id) ==
    LET gone == store.papers[FirstHit(PaperHits(store, arxiv_id))].id
    IN  [store EXCEPT !.papers = SelectRows(@, {r.id : r \in Range(store.papers)} \ {gone})]

\* a faulty list_papers that gives the newest rows first
list_papers_newest_first(store, limit) ==
    LET n == IF limit = NoLimit THEN Len(store.papers)
             ELSE IF limit < Len(store.papers) THEN limit ELSE Len(store.papers)
    IN  [i \in 1..n |-> to_paper(store, store.papers[Len(store.papers) + 1 - i])]

\* list_papers(limit): ORDER BY id LIMIT limit
list_papers(store, limit) ==
    LET n == IF limit = NoLimit THEN Len(store.papers)
             ELSE IF limit < Len(store.papers) THEN limit ELSE Len(store.papers)
    IN  [i \in 1..n |-> to_paper(store, store.papers[i])]

(***************************************************************************)
(* The unit of work (infrastructure/unit_of_work.py over                   *)
(* application/ports/unit_of_work.py).  db is what is committed; sess is   *)
(* what the open session sees: its own writes over what was committed when *)
(* its transaction began.                                                  *)
(***************************************************************************)
\* a faulty __enter__ that goes on with the session of the scope before
enter_keeping_session(committed, old_session) == old_session

\* SqlAlchemyUnitOfWork.__enter__: a new session from the factory
SqlAlchemyUnitOfWork_enter(committed, old_session) == committed

\* SqlAlchemyUnitOfWork.commit: session.commit()
SqlAlchemyUnitOfWork_commit(committed, session) == session

\* SqlAlchemyUnitOfWork.rollback: session.rollback()
SqlAlchemyUnitOfWork_rollback(committed, session) == committed

\* AbstractUnitOfWork.__exit__: the abstract method, whose body is
\* `raise NotImplementedError`; what it raises
AbstractUnitOfWork_exit(exc_val) == "NotImplementedError"

\* SqlAlchemyUnitOfWork.__exit__: super().__exit__(*args), then
\* self.session.close().  propagated: what leaves the with statement.
SqlAlchemyUnitOfWork_exit(exc_val) ==
    LET raised == AbstractUnitOfWork_exit(exc_val)
    IN  IF raised # NoError
        THEN [propagated |-> raised, rolled_back |-> FALSE, closed |-> FALSE]
        ELSE [propagated |-> exc_val, rolled_back |-> FALSE, closed |-> TRUE]

\* what the session sees once __exit__ has run: a session rolled back or
\* closed has lost its uncommitted writes
session_after_exit(committed, session, out) ==
    IF out.rolled_back \/ out.closed THEN committed ELSE session

(***************************************************************************)
(* Inputs of the repository operations.                                    *)
(***************************************************************************)
cs == <<"cs">>
AI == <<"AI">>
CV == <<"CV">>

CategoryInputs ==
    {Category(cs, None, <<"Computer Science">>, None, None),
     BareCategory(cs, AI),
     Category(cs, AI, <<"Computer Science">>, <<"Artificial Intelligence">>, <<"Covers AI">>)}

CategoryKeys == {<<cs, None>>, <<cs, AI>>, <<cs, CV>>}

PaperInputs ==
    {Paper("p1", "Sample Paper", "An abstract", 20250101, <<BareCategory(cs, CV), BareCategory(cs, AI)>>),
     Paper("p1", "Updated Title", "Another abstract", 20250102, <<BareCategory(cs, AI)>>),
     Paper("p1", "Updated Title", "Another abstract", 20250102, <<>>),
     Paper("p2", "Another Paper", "An abstract", 20250101, <<BareCategory(cs, CV)>>)}

ArxivIds == {p.arxiv_id : p \in PaperInputs}

\* the number of repository calls of one run
MaxOps == 3

VARIABLES
    db,        \* the committed store
    sess,      \* the store as the current session sees it
    scope,     \* "none": never entered, "open": inside `with uow`, "exited"
    exc,       \* the exception raised inside the open scope, or NoError
    outcome,   \* of the last __exit__: propagated, rolled_back, closed
    fresh,     \* the open scope has made no repository call yet
    last,      \* the last repository call of the open scope
    pending,   \* arxiv_id -> get_paper as committed, for the papers upserted
               \* in the open scope since its last commit()
    lost,      \* pending, as the last scope left it on exit
    written,   \* arxiv_id -> the Paper last given to upsert_paper in the open
               \* scope, nothing deleted or rolled back since
    kept,      \* written, as the last commit() found it
    nops,      \* repository calls made so far
    \* fetch_and_store_latest_papers
    pc,          \* "idle", "fetching" (the while loop), "exiting" (the with
                 \* statement is being left), "returned", "raised"
    categories,  \* the argument: a list of category strings, or NoneList
    seed,        \* the group _resolve_categories returned
    queue,       \* category_identifiers_queue
    paper_dtos,  \* the set the loop accumulates
    papers,      \* the list the call builds and returns
    calls,       \* feed_calls, feed_errors (the calls that raised), upserts,
                 \* commits so far; at_commit: feed_calls and upserts as
                 \* commit() found them
    honest,      \* every feed result so far was as complete as the cap allows
    pre,         \* the committed store when the call began
    fetched,     \* the last pass of the loop: the group popped, the size of
                 \* the result, the groups enqueued, and dropped: the entries
                 \* of the result and of paper_dtos as the pass found it
                 \* that paper_dtos holds no more after the pass
    \* the repository on one session
    log,         \* the paper rows added and deleted so far, in order
    \* the domain model
    string_arg,       \* a str given to Category.from_string
    pair_arg,         \* two Category values to compare
    ret               \* what the last call on the domain model returned

repoVars == <<fresh, last, pending, lost, written, kept, nops>>
fetchVars == <<pc, categories, seed, queue, paper_dtos, papers, calls, honest, pre, fetched>>
storeVars == <<log>>
modelVars == <<string_arg, pair_arg, ret>>
vars == <<db, sess, scope, exc, outcome, repoVars, fetchVars, storeVars, modelVars>>

NoOutcome == [propagated |-> NoError, rolled_back |-> FALSE, closed |-> FALSE]
NoCall == [op |-> "none"]
NoCalls ==
    [feed_calls |-> 0, feed_errors |-> 0, enqueued |-> 0, lookups |-> 0, upserts |-> 0,
     commits |-> 0, at_commit |-> <<0, 0>>]

InitRepo ==
    /\ db = EmptyStore
    /\ sess = EmptyStore
    /\ scope = "none"
    /\ exc = NoError
    /\ outcome = NoOutcome
    /\ fresh = FALSE
    /\ last = NoCall
    /\ pending = <<>>
    /\ lost = <<>>
    /\ written = <<>>
    /\ kept = <<>>
    /\ nops = 0
    /\ pc = "idle"
    /\ categories = NoneList
    /\ seed = <<>>
    /\ queue = <<>>
    /\ paper_dtos = {}
    /\ papers = <<>>
    /\ calls = NoCalls
    /\ honest = TRUE
    /\ pre = EmptyStore
    /\ fetched = NoCall
    /\ log = <<>>
    /\ string_arg = <<>>
    /\ pair_arg = <<NoneObject, NoneObject>>
    /\ ret = NoCall

InScope == scope = "open" /\ exc = NoError
CanCall == InScope /\ nops < MaxOps

\* with uow:
Enter ==
    /\ scope # "open"
    /\ sess' = SqlAlchemyUnitOfWork_enter(db, sess)
    /\ scope' = "open"
    /\ fresh' = TRUE
    /\ last' = NoCall
    /\ outcome' = NoOutcome
    /\ pending' = <<>>
    /\ written' = <<>>
    /\ exc' = NoError
    /\ UNCHANGED <<db, lost, kept, nops, fetchVars, storeVars, modelVars>>

\* uow.papers.upsert_paper(paper)
UpsertPaper(paper, order) ==
    /\ CanCall
    /\ sess' = upsert_paper(sess, paper, order)
    /\ last' = [op |-> "upsert_paper", paper |-> paper,
                existed |-> PaperHits(sess, paper.arxiv_id) # {},
                repeat |-> last.op = "upsert_paper" /\ last.paper = paper,
                before |-> sess]
    /\ pending' = [id \in DOMAIN pending \cup {paper.arxiv_id} |->
                       IF id \in DOMAIN pending THEN pending[id] ELSE get_paper(db, id)]
    /\ written' = [id \in DOMAIN written \cup {paper.arxiv_id} |->
                       IF id = paper.arxiv_id THEN paper ELSE written[id]]
    /\ fresh' = FALSE
    /\ nops' = nops + 1
    /\ UNCHANGED <<db, scope, exc, outcome, lost, kept, fetchVars, storeVars, modelVars>>

\* uow.papers.upsert_category(category)
UpsertCategory(category) ==
    /\ CanCall
    /\ sess' = upsert_category(sess, category)
    /\ last' = [op |-> "upsert_category", category |-> category]
    /\ fresh' = FALSE
    /\ nops' = nops + 1
    /\ UNCHANGED <<db, scope, exc, outcome, pending, lost, written, kept, fetchVars, storeVars, modelVars>>

\* uow.papers.delete_category(archive, subcategory)
DeleteCategory(key) ==
    /\ CanCall
    /\ IF delete_category_raises(sess, key[1], key[2])
       THEN exc' = "CategoryNotFoundError" /\ sess' = sess
       ELSE exc' = exc /\ sess' = delete_category(sess, key[1], key[2])
    /\ last' = [op |-> "delete_category", key |-> key]
    /\ fresh' = FALSE
    /\ nops' = nops + 1
    /\ written' = <<>>
    /\ UNCHANGED <<db, scope, outcome, pending, lost, kept, fetchVars, storeVars, modelVars>>

\* uow.papers.delete_paper(arxiv_id)
DeletePaper(arxiv_id) ==
    /\ CanCall
    /\ IF delete_paper_raises(sess, arxiv_id)
       THEN exc' = "PaperNotFoundError" /\ sess' = sess
       ELSE exc' = exc /\ sess' = delete_paper(sess, arxiv_id)
    /\ last' = [op |-> "delete_paper", arxiv_id |-> arxiv_id]
    /\ fresh' = FALSE
    /\ nops' = nops + 1
    /\ written' = <<>>
    /\ UNCHANGED <<db, scope, outcome, pending, lost, kept, fetchVars, storeVars, modelVars>>

\* uow.commit()
Commit ==
    /\ InScope
    /\ db' = SqlAlchemyUnitOfWork_commit(db, sess)
    /\ kept' = written
    /\ pending' = <<>>
    /\ UNCHANGED <<sess, scope, exc, outcome, fresh, last, lost, written, nops, fetchVars, storeVars, modelVars>>

\* uow.rollback()
Rollback ==
    /\ InScope
    /\ sess' = SqlAlchemyUnitOfWork_rollback(db, sess)
    /\ last' = [op |-> "rollback"]
    /\ written' = <<>>
    /\ UNCHANGED <<db, scope, exc, outcome, fresh, pending, lost, kept, nops, fetchVars, storeVars, modelVars>>

\* the body of the with statement raises
Raise ==
    /\ InScope
    /\ exc' = "RuntimeError"
    /\ UNCHANGED <<db, sess, scope, outcome, fresh, last, pending, lost, written, kept, nops, fetchVars, storeVars, modelVars>>

\* the with statement is left: uow.__exit__(exc_type, exc_val, exc_tb)
Exit ==
    /\ scope = "open"
    /\ outcome' = SqlAlchemyUnitOfWork_exit(exc)
    /\ sess' = session_after_exit(db, sess, outcome')
    /\ scope' = "exited"
    /\ lost' = pending
    /\ pending' = <<>>
    /\ UNCHANGED <<db, exc, fresh, last, written, kept, nops, fetchVars, storeVars, modelVars>>

NextRepo ==
    \/ Enter
    \/ \E paper \in PaperInputs : \E order \in missing_orders(sess, paper) : UpsertPaper(paper, order)
    \/ \E category \in CategoryInputs : UpsertCategory(category)
    \/ \E key \in CategoryKeys : DeleteCategory(key)
    \/ \E arxiv_id \in ArxivIds : DeletePaper(arxiv_id)
    \/ Commit
    \/ Rollback
    \/ Raise
    \/ Exit

SpecRepo == InitRepo /\ [][NextRepo]_vars

(***************************************************************************)
(* fetch_and_store_latest_papers (application/services.py).                *)
(***************************************************************************)
\* PaperDTO(arxiv_id, title, abstract, published_at, categories)
PaperDTO(arxiv_id, title, abstract, published_at, category_strings) ==
    [arxiv_id |-> arxiv_id, title |-> title, abstract |-> abstract,
     published_at |-> published_at, categories |-> category_strings]

\* PaperDTO.__eq__: every field is compared
PaperDTO_eq(a, b) ==
    /\ a.arxiv_id = b.arxiv_id
    /\ a.title = b.title
    /\ a.abstract = b.abstract
    /\ a.published_at = b.published_at
    /\ a.categories = b.categories

\* a faulty loop that keeps the last result only: paper_dtos = set(result)
set_replaced_by(held, result) == Range(result)

\* set.update(result): an element equal to one already held is not added
RECURSIVE set_update(_, _)
set_update(held, result) ==
    IF result = <<>> THEN held
    ELSE set_update(IF \E x \in held : PaperDTO_eq(x, Head(result)) THEN held
                    ELSE held \cup {Head(result)},
                    Tail(result))

\* CategoryIdentifier(archive, subcategory)
CategoryIdentifier(archive, subcategory) == [archive |-> archive, subcategory |-> subcategory]

\* CategoryIdentifier.from_string, by the split of Category.split_string
CategoryIdentifier_from_string(category_string) ==
    CategoryIdentifier(split_string(category_string)[1], split_string(category_string)[2])

\* category.identifier, the CategoryIdentifier of a Category
category_identifier(category) == CategoryIdentifier(category.archive, category.subcategory)

\* uow.papers.get_subcategories(archive): the stored categories of the
\* archive that have a subcategory, in id order
get_subcategories(store, archive) ==
    LET rows == SelectRows(store.cats, {r.id : r \in {x \in Range(store.cats) :
                                 x.archive = archive /\ x.subcategory # None}})
    IN  [i \in 1..Len(rows) |-> to_category(rows[i])]

\* uow.papers.upsert_papers(papers): upsert_paper for each paper in turn;
\* the stores it can leave (one per order of the categories added)
RECURSIVE upsert_papers(_, _)
upsert_papers(store, paper_list) ==
    IF paper_list = <<>> THEN {store}
    ELSE UNION {upsert_papers(upsert_paper(store, Head(paper_list), order), Tail(paper_list)) :
                   order \in missing_orders(store, Head(paper_list))}

\* the unit of work of arxivist.application.ports.persistence, on exit:
\* rollback, then the session is released; the exception propagates
PersistenceUnitOfWork_exit(exc_val) ==
    [propagated |-> exc_val, rolled_back |-> TRUE, closed |-> TRUE]

\* a faulty _resolve_categories that returns the empty list it found
resolve_categories_never_raises(category_strings, store) ==
    IF category_strings # NoneList
    THEN [raised |-> NoError,
          group  |-> [i \in 1..Len(category_strings) |->
                         CategoryIdentifier_from_string(category_strings[i])]]
    ELSE LET stored == list_categories(store, NoLimit)
         IN  [raised |-> NoError,
              group  |-> [i \in 1..Len(stored) |-> category_identifier(stored[i])]]

\* _resolve_categories: the group, or the exception raised
_resolve_categories(category_strings, store) ==
    IF category_strings # NoneList
    THEN [raised |-> NoError,
          group  |-> [i \in 1..Len(category_strings) |->
                         CategoryIdentifier_from_string(category_strings[i])]]
    ELSE LET stored == list_categories(store, NoLimit)
             category_identifiers == [i \in 1..Len(stored) |-> category_identifier(stored[i])]
         IN  IF category_identifiers = <<>>
             THEN [raised |-> "NoCategoriesError", group |-> <<>>]
             ELSE [raised |-> NoError, group |-> category_identifiers]

\* a faulty _should_split_categories that splits a single subcategory too
should_split_any_group(result, category_identifiers, limit) ==
    Len(result) = limit /\ Len(category_identifiers) >= 1

\* a faulty _should_split_categories that takes a full page for a whole result
should_split_above_limit(result, category_identifiers, limit) ==
    /\ Len(result) > limit
    /\ \/ Len(category_identifiers) >= 2
       \/ (Len(category_identifiers) = 1 /\ category_identifiers[1].subcategory = None)

\* a faulty _should_split_categories that leaves a lone archive alone
should_split_groups_only(result, category_identifiers, limit) ==
    Len(result) = limit /\ Len(category_identifiers) >= 2

\* _should_split_categories
_should_split_categories(result, category_identifiers, limit) ==
    /\ Len(result) = limit
    /\ \/ Len(category_identifiers) >= 2
       \/ (Len(category_identifiers) = 1 /\ category_identifiers[1].subcategory = None)

\* a faulty _split_categories that cuts after the larger half
split_after_larger_half(category_identifiers, store) ==
    IF Len(category_identifiers) >= 2
    THEN LET mid == (Len(category_identifiers) + 1) \div 2
         IN  <<SubSeq(category_identifiers, 1, mid),
               SubSeq(category_identifiers, mid + 1, Len(category_identifiers))>>
    ELSE LET subcategories == get_subcategories(store, category_identifiers[1].archive)
         IN  IF subcategories # <<>>
             THEN <<[i \in 1..Len(subcategories) |-> category_identifier(subcategories[i])]>>
             ELSE <<>>

\* a faulty _split_categories that gives each subcategory a group of its own
split_one_group_per_subcategory(category_identifiers, store) ==
    IF Len(category_identifiers) >= 2
    THEN LET mid == Len(category_identifiers) \div 2
         IN  <<SubSeq(category_identifiers, 1, mid),
               SubSeq(category_identifiers, mid + 1, Len(category_identifiers))>>
    ELSE LET subcategories == get_subcategories(store, category_identifiers[1].archive)
         IN  [i \in 1..Len(subcategories) |-> <<category_identifier(subcategories[i])>>]

\* a faulty _split_categories that asks for a lone archive once more
split_keeps_archive(category_identifiers, store) ==
    IF Len(category_identifiers) >= 2
    THEN LET mid == Len(category_identifiers) \div 2
         IN  <<SubSeq(category_identifiers, 1, mid),
               SubSeq(category_identifiers, mid + 1, Len(category_identifiers))>>
    ELSE <<category_identifiers>>

\* _split_categories
_split_categories(category_identifiers, store) ==
    IF Len(category_identifiers) >= 2
    THEN LET mid == Len(category_identifiers) \div 2
         IN  <<SubSeq(category_identifiers, 1, mid),
               SubSeq(category_identifiers, mid + 1, Len(category_identifiers))>>
    ELSE LET subcategories == get_subcategories(store, category_identifiers[1].archive)
         IN  IF subcategories # <<>>
             THEN <<[i \in 1..Len(subcategories) |-> category_identifier(subcategories[i])]>>
             ELSE <<>>

\* a faulty loop that catches the exception of fetch_latest_papers
fetch_swallows(feed_error) == NoError

\* _fetch_papers_with_progress, line 143: fetch_latest_papers is called
\* with no handler around it; the exception that leaves the loop
_fetch_raises(feed_error) == feed_error

\* a faulty loop that puts the new groups at the front of the queue
queue_extend_front(category_identifiers_queue, new_category_identifiers) ==
    new_category_identifiers \o category_identifiers_queue

\* category_identifiers_queue.extend(new_category_identifiers) (line 147)
queue_extend(category_identifiers_queue, new_category_identifiers) ==
    category_identifiers_queue \o new_category_identifiers

\* the groups one pass of the loop appends to the queue (lines 145-147)
_new_groups(result, category_identifiers, limit, store) ==
    IF _should_split_categories(result, category_identifiers, limit)
    THEN _split_categories(category_identifiers, store)
    ELSE <<>>

\* the get_category calls of the comprehension of lines 185-190: one for
\* each category_str of each paper_dto
RECURSIVE enrichment_lookups(_)
enrichment_lookups(dtos) ==
    IF dtos = {} THEN 0
    ELSE LET d == CHOOSE x \in dtos : TRUE
         IN  Len(d.categories) + enrichment_lookups(dtos \ {d})

\* a faulty enrichment that never asks the repository
enriched_category_bare(store, category_str) ==
    LET id == CategoryIdentifier_from_string(category_str)
    IN  BareCategory(id.archive, id.subcategory)

\* an entry of enriched_category_mapping (lines 185-190)
enriched_category(store, category_str) ==
    LET id    == CategoryIdentifier_from_string(category_str)
        found == get_category(store, id.archive, id.subcategory)
    IN  IF found # NoneObject THEN found ELSE BareCategory(id.archive, id.subcategory)

\* the Paper built from a PaperDTO (lines 192-201)
paper_of_dto(store, paper_dto) ==
    Paper(paper_dto.arxiv_id, paper_dto.title, paper_dto.abstract, paper_dto.published_at,
          [i \in 1..Len(paper_dto.categories) |-> enriched_category(store, paper_dto.categories[i])])

(***************************************************************************)
(* The feed source and the stores a call can find.                         *)
(***************************************************************************)
math == <<"math">>
cs_AI == <<"cs", ".", "AI">>
cs_CV == <<"cs", ".", "CV">>
cs_LG == <<"cs", ".", "LG">>
stat_ML == <<"stat", ".", "ML">>

\* the feed calls of one run that are followed
MaxFeedCalls == 16

\* arxiv_paper_extractor.limit
Limit == 2

\* the papers the feed source has
World ==
    {PaperDTO("p1", "Sample Paper", "An abstract", 20250101, <<cs_AI>>),
     PaperDTO("p2", "Another Paper", "An abstract", 20250101, <<cs_CV, stat_ML>>),
     PaperDTO("p3", "Third Paper", "An abstract", 20250102, <<cs_LG, stat_ML>>)}

\* what an entry of a feed result can be: a paper of the feed, or p1 as a
\* later query gives it, retitled
FeedDTOs == World \cup {PaperDTO("p1", "Sample Paper v2", "An abstract", 20250101, <<cs_AI>>)}

\* fetch_latest_papers returns at most limit entries, or raises
FeedResults ==
    {[error |-> NoError, papers |-> r] : r \in UNION {[1..n -> FeedDTOs] : n \in 0..Limit}}
    \cup {[error |-> "PaperMissingFieldError", papers |-> <<>>]}

\* a paper is in the feed of a category: of an archive when one of its
\* categories is of the archive, of a subcategory when it has that category
Matches(paper_dto, id) ==
    \E i \in 1..Len(paper_dto.categories) :
        LET c == CategoryIdentifier_from_string(paper_dto.categories[i])
        IN  /\ c.archive = id.archive
            /\ id.subcategory # None => c.subcategory = id.subcategory

Matching(group) == {w \in World : \E i \in 1..Len(group) : Matches(w, group[i])}

IdsOf(dtos) == {d.arxiv_id : d \in dtos}

\* the result is all the matching papers when fewer than limit match, and
\* limit of them otherwise
HonestResult(group, result) ==
    LET want == IdsOf(Matching(group))
        got  == IdsOf(Range(result))
    IN  /\ Cardinality(got) = Len(result)
        /\ got \subseteq want
        /\ IF Cardinality(want) < Limit THEN got = want ELSE Len(result) = Limit

\* the store after fetch_and_store_categories
TaxonomyStore ==
    upsert_categories(EmptyStore,
        <<Category(cs, None, <<"Computer Science">>, None, None),
          Category(cs, AI, <<"Computer Science">>, <<"Artificial Intelligence">>, <<"Covers AI">>),
          Category(cs, CV, <<"Computer Science">>, <<"Computer Vision">>, <<"Covers CV">>),
          Category(cs, <<"LG">>, <<"Computer Science">>, <<"Machine Learning">>, <<"Covers LG">>),
          Category(math, None, <<"Mathematics">>, None, None)>>)

\* and with a paper stored by an earlier call
StoreWithPaper ==
    upsert_paper(TaxonomyStore,
                 Paper("p1", "Old Title", "Old abstract", 20240101, <<BareCategory(cs, AI)>>), <<>>)

InitStores == {EmptyStore, TaxonomyStore, StoreWithPaper}

CategoryArgs == {NoneList, <<>>, <<cs>>, <<cs, math>>, <<cs_AI>>, <<cs_CV, cs_AI, math>>}

Init ==
    /\ db \in InitStores
    /\ sess = db
    /\ scope = "none"
    /\ exc = NoError
    /\ outcome = NoOutcome
    /\ fresh = FALSE
    /\ last = NoCall
    /\ pending = <<>>
    /\ lost = <<>>
    /\ written = <<>>
    /\ kept = <<>>
    /\ nops = 0
    /\ pc = "idle"
    /\ categories = NoneList
    /\ seed = <<>>
    /\ queue = <<>>
    /\ paper_dtos = {}
    /\ papers = <<>>
    /\ calls = NoCalls
    /\ honest = TRUE
    /\ pre = db
    /\ fetched = NoCall
    /\ log = <<>>
    /\ string_arg = <<>>
    /\ pair_arg = <<NoneObject, NoneObject>>
    /\ ret = NoCall

\* fetch_and_store_latest_papers(categories, ...): `with uow` is entered
\* and the categories are resolved (lines 181-182, 137-139)
Begin(category_strings) ==
    /\ pc = "idle"
    /\ sess' = SqlAlchemyUnitOfWork_enter(db, sess)
    /\ scope' = "open"
    /\ categories' = category_strings
    /\ pre' = db
    /\ LET resolved == _resolve_categories(category_strings, sess')
       IN  IF resolved.raised # NoError
           THEN /\ exc' = resolved.raised
                /\ pc' = "exiting"
                /\ UNCHANGED <<seed, queue, calls>>
           ELSE /\ exc' = NoError
                /\ pc' = "fetching"
                /\ seed' = resolved.group
                /\ queue' = <<resolved.group>>
                /\ calls' = [calls EXCEPT !.enqueued = 1]
    /\ UNCHANGED <<db, outcome, repoVars, paper_dtos, papers, honest, fetched, storeVars, modelVars>>

\* one pass of the while loop (lines 141-152); the feed source answers
\* with result
FetchStep(result) ==
    /\ pc = "fetching"
    /\ queue # <<>>
    /\ calls.feed_calls < MaxFeedCalls
    /\ LET category_identifiers == Head(queue)
           raised == _fetch_raises(result.error)
           new_category_identifiers ==
               IF raised # NoError THEN <<>>
               ELSE _new_groups(result.papers, category_identifiers, Limit, sess)
       IN  /\ calls' = [calls EXCEPT !.feed_calls = @ + 1,
                                     !.feed_errors = @ + (IF result.error # NoError THEN 1 ELSE 0),
                                     !.enqueued = @ + Len(new_category_identifiers)]
           /\ IF raised # NoError
              THEN /\ exc' = raised
                   /\ pc' = "exiting"
                   /\ queue' = Tail(queue)
                   /\ UNCHANGED <<paper_dtos, honest>>
              ELSE /\ queue' = queue_extend(Tail(queue), new_category_identifiers)
                   /\ paper_dtos' = set_update(paper_dtos, result.papers)
                   /\ honest' = (honest /\ result.error = NoError
                                        /\ HonestResult(category_identifiers, result.papers))
                   /\ UNCHANGED <<exc, pc>>
           /\ fetched' = [op |-> "fetch_latest_papers", group |-> category_identifiers,
                          size |-> Len(result.papers), raised |-> raised,
                          split |-> (raised = NoError /\
                                     _should_split_categories(result.papers, category_identifiers, Limit)),
                          enqueued |-> new_category_identifiers,
                          dropped |-> {d \in paper_dtos \cup Range(result.papers) :
                                          \A e \in paper_dtos' : ~PaperDTO_eq(d, e)}]
    /\ UNCHANGED <<db, sess, scope, outcome, repoVars, categories, seed, papers, pre, storeVars, modelVars>>

\* the queue is empty: the papers are built, upserted and committed (lines
\* 185-203); a set is iterated in no fixed order
Persist ==
    /\ pc = "fetching"
    /\ queue = <<>>
    /\ \E order \in Perms(paper_dtos) :
          LET built == [i \in 1..Len(order) |-> paper_of_dto(sess, order[i])]
          IN  /\ papers' = built
              /\ sess' \in upsert_papers(sess, built)
              /\ calls' = [calls EXCEPT !.lookups = @ + enrichment_lookups(paper_dtos),
                                        !.upserts = @ + Len(built), !.commits = @ + 1,
                                        !.at_commit = <<calls.feed_calls, calls.upserts + Len(built)>>]
    /\ db' = SqlAlchemyUnitOfWork_commit(db, sess')
    /\ pc' = "exiting"
    /\ UNCHANGED <<scope, exc, outcome, repoVars, categories, seed, queue, paper_dtos, honest, pre,
                   fetched, storeVars, modelVars>>

\* the with statement is left; the call returns papers or raises
Leave ==
    /\ pc = "exiting"
    /\ outcome' = PersistenceUnitOfWork_exit(exc)
    /\ sess' = session_after_exit(db, sess, outcome')
    /\ scope' = "exited"
    /\ pc' = IF outcome'.propagated = NoError THEN "returned" ELSE "raised"
    /\ UNCHANGED <<db, exc, repoVars, categories, seed, queue, paper_dtos, papers, calls, honest, pre,
                   fetched, storeVars, modelVars>>

Next ==
    \/ \E category_strings \in CategoryArgs : Begin(category_strings)
    \/ \E result \in FeedResults : FetchStep(result)
    \/ Persist
    \/ Leave

Spec == Init /\ [][Next]_vars

\* the while loop takes its next pass as long as the queue is not empty
FairSpec == Spec /\ WF_vars(\E result \in FeedResults : FetchStep(result))

(***************************************************************************)
(* The repository on one session (SqlAlchemyPaperRepository(session)), as  *)
(* the tests of test_repository.py drive it: sess is what the session      *)
(* sees, last is the last call with the store as it found it.              *)
(***************************************************************************)
\* the number of repository calls of one run
MaxCalls == 5

\* the papers given to upsert_paper: those above, and one whose list of
\* categories names an identifier twice
RepoPaperInputs ==
    PaperInputs \cup
    {Paper("p2", "Another Paper", "An abstract", 20250101, <<BareCategory(cs, CV), BareCategory(cs, CV)>>),
     Paper("p2", "Another Paper", "An abstract", 20250101,
           <<Category(cs, AI, <<"CS">>, <<"AI">>, <<"From the feed">>)>>)}

InitStore ==
    /\ db = EmptyStore
    /\ sess = EmptyStore
    /\ scope = "open"
    /\ exc = NoError
    /\ outcome = NoOutcome
    /\ fresh = FALSE
    /\ last = NoCall
    /\ pending = <<>>
    /\ lost = <<>>
    /\ written = <<>>
    /\ kept = <<>>
    /\ nops = 0
    /\ pc = "idle"
    /\ categories = NoneList
    /\ seed = <<>>
    /\ queue = <<>>
    /\ paper_dtos = {}
    /\ papers = <<>>
    /\ calls = NoCalls
    /\ honest = TRUE
    /\ pre = EmptyStore
    /\ fetched = NoCall
    /\ log = <<>>
    /\ string_arg = <<>>
    /\ pair_arg = <<NoneObject, NoneObject>>
    /\ ret = NoCall

StoreFrame ==
    UNCHANGED <<db, scope, exc, outcome, fresh, pending, lost, written, kept, fetchVars, modelVars>>

\* repo.upsert_paper(paper)
RepoUpsertPaper(paper, order) ==
    /\ nops < MaxCalls
    /\ sess' = upsert_paper(sess, paper, order)
    /\ last' = [op |-> "upsert_paper", paper |-> paper, raised |-> NoError, before |-> sess]
    /\ log' = IF Len(sess'.papers) > Len(sess.papers)
              THEN Append(log, <<"add", paper.arxiv_id>>) ELSE log
    /\ nops' = nops + 1
    /\ StoreFrame

\* repo.upsert_category(category)
RepoUpsertCategory(category) ==
    /\ nops < MaxCalls
    /\ sess' = upsert_category(sess, category)
    /\ last' = [op |-> "upsert_category", category |-> category, raised |-> NoError,
                before |-> sess]
    /\ nops' = nops + 1
    /\ UNCHANGED log
    /\ StoreFrame

\* repo.delete_category(archive, subcategory), inside pytest.raises when
\* it raises
RepoDeleteCategory(key) ==
    /\ nops < MaxCalls
    /\ IF delete_category_raises(sess, key[1], key[2])
       THEN /\ sess' = sess
            /\ last' = [op |-> "delete_category", key |-> key,
                        raised |-> "CategoryNotFoundError", before |-> sess]
       ELSE /\ sess' = delete_category(sess, key[1], key[2])
            /\ last' = [op |-> "delete_category", key |-> key, raised |-> NoError,
                        before |-> sess]
    /\ nops' = nops + 1
    /\ UNCHANGED log
    /\ StoreFrame

\* repo.delete_paper(arxiv_id), inside pytest.raises when it raises
RepoDeletePaper(arxiv_id) ==
    /\ nops < MaxCalls
    /\ IF delete_paper_raises(sess, arxiv_id)
       THEN /\ sess' = sess
            /\ last' = [op |-> "delete_paper", arxiv_id |-> arxiv_id,
                        raised |-> "PaperNotFoundError", before |-> sess]
       ELSE /\ sess' = delete_paper(sess, arxiv_id)
            /\ last' = [op |-> "delete_paper", arxiv_id |-> arxiv_id, raised |-> NoError,
                        before |-> sess]
    /\ log' = IF Len(sess'.papers) < Len(sess.papers)
              THEN Append(log, <<"delete", arxiv_id>>) ELSE log
    /\ nops' = nops + 1
    /\ StoreFrame

NextStore ==
    \/ \E paper \in RepoPaperInputs : \E order \in missing_orders(sess, paper) :
          RepoUpsertPaper(paper, order)
    \/ \E category \in CategoryInputs : RepoUpsertCategory(category)
    \/ \E key \in CategoryKeys : RepoDeleteCategory(key)
    \/ \E arxiv_id \in ArxivIds : RepoDeletePaper(arxiv_id)

SpecStore == InitStore /\ [][NextStore]_vars

(***************************************************************************)
(* The domain model on its own: Category.from_string with                  *)
(* Category.identifier, and Category.__eq__ with Category.__hash__.        *)
(***************************************************************************)
\* the longest str given to from_string, in tokens
MaxLen == 3

Tokens == {"cs", "AI", Dot}

Strings == UNION {[1..n -> Tokens] : n \in 0..MaxLen}

CategoryValues ==
    {Category(a, sb, d[1], d[2], d[3]) :
        a \in {cs, <<"math">>}, sb \in {None, AI, CV},
        d \in {<<None, None, None>>,
               <<<<"Computer Science">>, <<"Artificial Intelligence">>, <<"Covers AI">>>>}}

InitModel ==
    /\ db = EmptyStore
    /\ sess = EmptyStore
    /\ scope = "none"
    /\ exc = NoError
    /\ outcome = NoOutcome
    /\ fresh = FALSE
    /\ last = NoCall
    /\ pending = <<>>
    /\ lost = <<>>
    /\ written = <<>>
    /\ kept = <<>>
    /\ nops = 0
    /\ pc = "idle"
    /\ categories = NoneList
    /\ seed = <<>>
    /\ queue = <<>>
    /\ paper_dtos = {}
    /\ papers = <<>>
    /\ calls = NoCalls
    /\ honest = TRUE
    /\ pre = EmptyStore
    /\ fetched = NoCall
    /\ log = <<>>
    /\ string_arg \in Strings
    /\ pair_arg \in CategoryValues \X CategoryValues
    /\ ret = NoCall

ModelFrame == UNCHANGED <<db, sess, scope, exc, outcome, repoVars, fetchVars, storeVars, string_arg, pair_arg>>

\* Category.from_string(string_arg).identifier
FromString ==
    /\ ret.op # "from_string"
    /\ ret' = [op |-> "from_string", category |-> from_string(string_arg),
               identifier |-> identifier(from_string(string_arg))]
    /\ ModelFrame

\* pair_arg[1] == pair_arg[2] and hash(pair_arg[1]) == hash(pair_arg[2]);
\* the hashes of two different (archive, subcategory) tuples may collide
Equals ==
    /\ ret.op # "eq"
    /\ \E collide \in BOOLEAN :
          ret' = [op |-> "eq", equal |-> CategoryEq(pair_arg[1], pair_arg[2]),
                  hash_equal |-> (CategoryKey(pair_arg[1]) = CategoryKey(pair_arg[2]) \/ collide)]
    /\ ModelFrame

\* len({first, second}) and first == second, for two PaperDTO values
BuildSet(first, second) ==
    /\ ret.op # "set"
    /\ ret' = [op |-> "set", first |-> first, second |-> second,
               equal |-> PaperDTO_eq(first, second),
               size |-> Cardinality(set_update({}, <<first, second>>))]
    /\ ModelFrame

NextModel ==
    \/ FromString
    \/ Equals
    \/ \E first, second \in FeedDTOs : BuildSet(first, second)

SpecModel == InitModel /\ [][NextModel]_vars

(***************************************************************************)
(* Claims on the unit of work and the repository, checked under SpecRepo.  *)
(***************************************************************************)
FreshScope == scope = "open" /\ fresh

\* the (archive, subcategory) pairs of a list of categories
KeysOfList(category_list) == {CategoryKey(category_list[i]) : i \in 1..Len(category_list)}

\* the stored version of a paper is the Paper given to upsert_paper
StoredAsGiven(got, paper) ==
    /\ got # NoneObject
    /\ got.arxiv_id = paper.arxiv_id
    /\ got.title = paper.title
    /\ got.abstract = paper.abstract
    /\ got.published_at = paper.published_at
    /\ {CategoryKey(c) : c \in got.categories} = KeysOfList(paper.categories)

\* C5 as stated: in a scope opened after a scope that left upserts
\* uncommitted, get_paper returns None for every paper upserted there.
C5_UncommittedAbsent ==
    FreshScope => \A id \in DOMAIN lost : get_paper(sess, id) = NoneObject

\* C5, amended: in a scope opened after a scope that left upserts uncommitted
\* (by leaving without commit() or by rollback()), get_paper returns for
\* every paper upserted there what was committed before: None when the paper
\* was not stored, its committed version otherwise.
C5_UncommittedLeaveNoTrace ==
    FreshScope => \A id \in DOMAIN lost : get_paper(sess, id) = lost[id]

C5_Witness ==
    /\ FreshScope
    /\ \E id \in DOMAIN lost : lost[id] = NoneObject
    /\ \E id \in DOMAIN lost : lost[id] # NoneObject

\* C6: when an exception is raised inside a scope, the exit rolls back,
\* closes the session and lets that same exception propagate.
C6_ExitPropagatesSameException ==
    (scope = "exited" /\ exc # NoError) =>
        /\ outcome.propagated = exc
        /\ outcome.rolled_back
        /\ outcome.closed

\* C7: a paper upserted and then committed is retrieved by a new scope with
\* the same arxiv_id, title, abstract, published_at and set of categories.
C7_CommittedWritesDurable ==
    FreshScope => \A id \in DOMAIN kept : StoredAsGiven(get_paper(sess, id), kept[id])

\* C9: upsert_paper called twice in a row with the same Paper leaves the
\* store as the first call left it, from every reachable store and for
\* every paper, and no two stored paper rows share an arxiv_id.
C9_UpsertPaperIdempotent ==
    /\ (last.op = "upsert_paper" /\ last.repeat) => sess = last.before
    /\ \A paper \in PaperInputs : \A o1 \in missing_orders(sess, paper) :
          LET once == upsert_paper(sess, paper, o1)
          IN  \A o2 \in missing_orders(once, paper) : upsert_paper(once, paper, o2) = once
    /\ \A store \in {db, sess} : \A id \in ArxivIds : Cardinality(PaperHits(store, id)) <= 1

C9_Witness ==
    /\ last.op = "upsert_paper"
    /\ last.repeat
    /\ last.paper.categories # <<>>
    /\ Len(sess.papers) = 1

\* C10: after upsert_paper on a stored arxiv_id, get_paper returns the
\* title, abstract and published_at given and exactly the categories given.
C10_UpsertReplaces ==
    (InScope /\ last.op = "upsert_paper" /\ last.existed) =>
        StoredAsGiven(get_paper(sess, last.paper.arxiv_id), last.paper)

(***************************************************************************)
(* Claims on fetch_and_store_latest_papers, checked under Spec.            *)
(***************************************************************************)
\* what a scope opened after the call sees
AfterCall == SqlAlchemyUnitOfWork_enter(db, sess)

LoopDone == pc # "idle" /\ exc = NoError /\ queue = <<>>

\* the identifiers with a subcategory that a query can name
SubcategoryIds ==
    {id \in {CategoryIdentifier_from_string(w.categories[i]) : w \in World, i \in 1..1}
            \cup {category_identifier(c) : c \in Range(list_categories(pre, NoLimit))}
            \cup Range(seed) :
        id.subcategory # None}

\* the assumptions of C1: the feed results were complete up to the cap, a
\* single subcategory has fewer than limit papers, and the stored
\* subcategories of a requested archive cover the papers of the archive
FeedAssumptions ==
    /\ honest
    /\ \A id \in SubcategoryIds : Cardinality(Matching(<<id>>)) < Limit
    /\ \A i \in 1..Len(seed) :
          seed[i].subcategory = None =>
              \A w \in Matching(<<seed[i]>>) :
                  \E sub \in Range(get_subcategories(pre, seed[i].archive)) :
                      Matches(w, category_identifier(sub))

\* C1: under the assumptions, once the queue is empty the accumulated set
\* holds every paper that matches one of the resolved identifiers.
C1_FetchComplete ==
    (LoopDone /\ FeedAssumptions) => \A w \in Matching(seed) : w.arxiv_id \in IdsOf(paper_dtos)

\* the cap was hit, the group was split down to single subcategories and
\* all three papers were found, of which no call could return more than two
C1_Witness ==
    /\ LoopDone
    /\ FeedAssumptions
    /\ Cardinality(Matching(seed)) > Limit
    /\ calls.feed_calls >= 4
    /\ IdsOf(paper_dtos) = IdsOf(World)

\* C2: neither the accumulated set nor the list returned holds two entries
\* with the same arxiv_id.
C2_NoDuplicateArxivId ==
    /\ \A a, b \in paper_dtos : a.arxiv_id = b.arxiv_id => a = b
    /\ \A i, j \in 1..Len(papers) : papers[i].arxiv_id = papers[j].arxiv_id => i = j

\* C3: once a feed call has raised PaperMissingFieldError the call makes no
\* commit, the committed store stays as it was before the call, the call
\* ends raising that error, and a scope opened afterwards sees the store
\* of before the call.
C3_FeedErrorAborts ==
    calls.feed_errors > 0 =>
        /\ exc = "PaperMissingFieldError"
        /\ calls.commits = 0
        /\ db = pre
        /\ pc \in {"exiting", "raised"}
        /\ pc = "raised" => (outcome.propagated = "PaperMissingFieldError" /\ AfterCall = pre)

\* the error came on a later call, after papers had been returned, and the
\* store held a paper before the call
C3_Witness ==
    /\ pc = "raised"
    /\ calls.feed_errors > 0
    /\ calls.feed_calls >= 2
    /\ paper_dtos # {}
    /\ pre.papers # <<>>

C8_ReturnedPapersCommitted ==
    pc = "returned" =>
        /\ calls.commits = 1
        /\ calls.at_commit = <<calls.feed_calls, calls.upserts>>
        /\ calls.upserts = Len(papers)
        /\ \A i \in 1..Len(papers) :
              LET got == get_paper(AfterCall, papers[i].arxiv_id)
              IN  /\ got # NoneObject
                  /\ got.title = papers[i].title
                  /\ got.abstract = papers[i].abstract
                  /\ got.published_at = papers[i].published_at

\* a pass of the loop that raised nothing has been made
Fetched == fetched.op = "fetch_latest_papers" /\ fetched.raised = NoError

\* the group of the last pass is one identifier with a subcategory
SingleSubcategory == Len(fetched.group) = 1 /\ fetched.group[1].subcategory # None

\* C17: a pass of the loop drops nothing: the entries of its result and
\* the entries accumulated before are in the accumulated set after it; a
\* group of two or more identifiers whose result has limit entries is
\* enqueued again as two halves that make up the group; every group
\* enqueued is either waiting in the queue or has been queried, so that
\* each sub-group gets its feed call before the loop ends.
C17_SplitNeverLoses ==
    /\ Fetched => fetched.dropped = {}
    /\ (Fetched /\ fetched.size = Limit /\ Len(fetched.group) >= 2) =>
          /\ Len(fetched.enqueued) = 2
          /\ fetched.enqueued[1] \o fetched.enqueued[2] = fetched.group
    /\ (pc = "fetching" /\ Fetched /\ fetched.enqueued # <<>>) => queue # <<>>
    /\ (pc = "fetching" /\ exc = NoError) => calls.feed_calls + Len(queue) = calls.enqueued
    /\ (pc \in {"exiting", "returned"} /\ exc = NoError) => calls.feed_calls = calls.enqueued

\* the loop has ended after a split, with more papers than one call gives
C17_Witness ==
    /\ LoopDone
    /\ calls.enqueued >= 3
    /\ calls.feed_calls = calls.enqueued
    /\ Cardinality(paper_dtos) > Limit

\* C18: a pass whose result has a size other than limit, or whose group is
\* a single identifier with a subcategory, enqueues nothing and raises
\* nothing.
C18_TrustedGroupNotSplit ==
    (Fetched /\ (fetched.size # Limit \/ SingleSubcategory)) =>
        /\ fetched.enqueued = <<>>
        /\ exc = NoError

\* a single subcategory gave limit entries and nothing was enqueued
C18_Witness ==
    /\ Fetched
    /\ SingleSubcategory
    /\ fetched.size = Limit
    /\ fetched.enqueued = <<>>
    /\ get_subcategories(sess, fetched.group[1].archive) # <<>>

(***************************************************************************)
(* Claims on the repository, checked under SpecStore.  The rows are read   *)
(* directly, so that what is stored is told apart from what a query finds. *)
(***************************************************************************)
RowKey(row) == <<row.archive, row.subcategory>>

HasCategoryRow(store, key) == \E r \in Range(store.cats) : RowKey(r) = key

HasPaperRow(store, arxiv_id) == \E r \in Range(store.papers) : r.arxiv_id = arxiv_id

\* the category rows whose key is not the given one, in order
RowsExcept(store, key) == SelectRows(store.cats, {r.id : r \in {x \in Range(store.cats) : RowKey(x) # key}})

\* the ids of the category rows of the given keys
IdsOfKeys(store, keys) == {r.id : r \in {x \in Range(store.cats) : RowKey(x) \in keys}}

Called(op) == last.op = op /\ last.raised = NoError

\* C11: no two stored categories have the same (archive, subcategory);
\* upsert_paper leaves the stored category rows as they are, adds one row
\* for each identifier of the paper that was not stored, however often the
\* list names it, and associates the paper with the rows that were stored.
C11_CategoryKeysUnique ==
    /\ \A i, j \in 1..Len(sess.cats) : RowKey(sess.cats[i]) = RowKey(sess.cats[j]) => i = j
    /\ Called("upsert_paper") =>
          LET before == last.before
              keys   == KeysOfList(last.paper.categories)
              new    == {k \in keys : ~HasCategoryRow(before, k)}
              row    == CHOOSE r \in Range(sess.papers) : r.arxiv_id = last.paper.arxiv_id
          IN  /\ Len(sess.cats) = Len(before.cats) + Cardinality(new)
              /\ SubSeq(sess.cats, 1, Len(before.cats)) = before.cats
              /\ {RowKey(sess.cats[i]) : i \in (Len(before.cats) + 1)..Len(sess.cats)} = new
              /\ IdsOfKeys(before, keys) \subseteq row.categories
              /\ IdsOfKeys(sess, keys) \subseteq row.categories

\* a paper naming one identifier twice, not stored before, got one row
C11_Witness ==
    /\ Called("upsert_paper")
    /\ Len(last.paper.categories) = 2
    /\ Cardinality(KeysOfList(last.paper.categories)) = 1
    /\ last.before.cats # <<>>
    /\ Len(sess.cats) = Len(last.before.cats) + 1

\* C12: delete_paper removes the paper row and leaves the category rows
\* and every other paper, with its categories, as they were.
C12_DeletePaperFrame ==
    Called("delete_paper") =>
        /\ ~HasPaperRow(sess, last.arxiv_id)
        /\ get_paper(sess, last.arxiv_id) = NoneObject
        /\ sess.cats = last.before.cats
        /\ \A key \in CategoryKeys :
              get_category(sess, key[1], key[2]) = get_category(last.before, key[1], key[2])
        /\ \A r \in Range(last.before.papers) : r.arxiv_id # last.arxiv_id => r \in Range(sess.papers)
        /\ \A id \in ArxivIds \ {last.arxiv_id} : get_paper(sess, id) = get_paper(last.before, id)

\* the deleted paper shared a category with a paper that stays and was the
\* only paper of another category
C12_Witness ==
    /\ Called("delete_paper")
    /\ \E gone \in Range(last.before.papers), stays \in Range(sess.papers) :
          /\ gone.arxiv_id = last.arxiv_id
          /\ gone.categories \cap stays.categories # {}
          /\ gone.categories \ stays.categories # {}

\* C13: delete_paper of an arxiv_id that is not stored raises
\* PaperNotFoundError, delete_category of a pair that is not stored raises
\* CategoryNotFoundError, and the store is left as it was.
C13_DeleteNotFound ==
    /\ (last.op = "delete_paper" /\ ~HasPaperRow(last.before, last.arxiv_id)) =>
          (last.raised = "PaperNotFoundError" /\ sess = last.before)
    /\ (last.op = "delete_category" /\ ~HasCategoryRow(last.before, last.key)) =>
          (last.raised = "CategoryNotFoundError" /\ sess = last.before)
    /\ \A id \in ArxivIds : delete_paper_raises(sess, id) <=> ~HasPaperRow(sess, id)
    /\ \A key \in CategoryKeys :
          delete_category_raises(sess, key[1], key[2]) <=> ~HasCategoryRow(sess, key)

\* a paper that is not stored was deleted from a store holding another
C13_Witness ==
    /\ last.op = "delete_paper"
    /\ last.raised = "PaperNotFoundError"
    /\ sess.papers # <<>>
    /\ sess.cats # <<>>

\* C14: upsert_category of a stored identifier overwrites archive_name,
\* category_name and description of its row and leaves the other rows and
\* the number of rows as they were; of an identifier not stored it adds
\* one row; a second call with the same category changes nothing.
C14_UpsertCategoryIdempotent ==
    /\ Called("upsert_category") =>
          LET before == last.before
              key    == CategoryKey(last.category)
          IN  /\ IF HasCategoryRow(before, key)
                 THEN /\ Len(sess.cats) = Len(before.cats)
                      /\ \A i \in 1..Len(before.cats) :
                            IF RowKey(before.cats[i]) = key
                            THEN sess.cats[i] = to_category_orm(last.category, before.cats[i].id)
                            ELSE sess.cats[i] = before.cats[i]
                 ELSE /\ Len(sess.cats) = Len(before.cats) + 1
                      /\ SubSeq(sess.cats, 1, Len(before.cats)) = before.cats
                      /\ to_category(sess.cats[Len(sess.cats)]) = last.category
              /\ sess.papers = before.papers
              /\ upsert_category(sess, last.category) = sess
    /\ \A c \in CategoryInputs : upsert_category(upsert_category(sess, c), c) = upsert_category(sess, c)

\* the description of a stored category was overwritten
C14_Witness ==
    /\ Called("upsert_category")
    /\ Len(sess.cats) >= 2
    /\ Len(sess.cats) = Len(last.before.cats)
    /\ sess # last.before

\* C15: get_category, upsert_category and delete_category given
\* (archive, None) find the row whose subcategory is None and no other, and
\* given (archive, subcategory) never the row of (archive, None): each
\* reads, writes or deletes the row of its own key and leaves the others.
C15_AbsentSubcategoryIsAKey ==
    /\ \A key \in CategoryKeys :
          LET got == get_category(sess, key[1], key[2])
          IN  IF HasCategoryRow(sess, key)
              THEN got # NoneObject /\ CategoryKey(got) = key
              ELSE got = NoneObject
    /\ Called("upsert_category") =>
          RowsExcept(sess, CategoryKey(last.category)) = RowsExcept(last.before, CategoryKey(last.category))
    /\ Called("delete_category") =>
          /\ ~HasCategoryRow(sess, last.key)
          /\ sess.cats = RowsExcept(last.before, last.key)
    /\ (last.op = "delete_category" /\ last.raised # NoError) => ~HasCategoryRow(last.before, last.key)

\* the archive was deleted and its subcategory stays
C15_Witness ==
    /\ Called("delete_category")
    /\ last.key[2] = None
    /\ \E r \in Range(sess.cats) : r.archive = last.key[1] /\ r.subcategory # None

\* the arxiv_ids in the order of the first row added for each
RECURSIVE FirstAdded(_)
FirstAdded(events) ==
    IF events = <<>> THEN <<>>
    ELSE LET rest == FirstAdded(SubSeq(events, 1, Len(events) - 1))
             e    == events[Len(events)]
         IN  IF e[1] = "add" /\ e[2] \notin Range(rest) THEN Append(rest, e[2]) ELSE rest

\* the arxiv_ids of the rows added and not deleted since, in the order added
RECURSIVE StillStored(_)
StillStored(events) ==
    IF events = <<>> THEN <<>>
    ELSE LET rest == StillStored(SubSeq(events, 1, Len(events) - 1))
             e    == events[Len(events)]
         IN  IF e[1] = "add" THEN Append(rest, e[2])
             ELSE SelectSeq(rest, LAMBDA x : x # e[2])

Prefix(seq, n) == SubSeq(seq, 1, IF n < Len(seq) THEN n ELSE Len(seq))

ListedIds(store, limit) ==
    [i \in 1..Len(list_papers(store, limit)) |-> list_papers(store, limit)[i].arxiv_id]

Limits == 0..(Cardinality(ArxivIds) + 1)

\* C16 as stated: list_papers(limit) gives the first limit stored papers
\* in the order in which their arxiv_ids were first inserted.
C16_ListInFirstInsertionOrder ==
    \A limit \in Limits :
        ListedIds(sess, limit) =
            Prefix(SelectSeq(FirstAdded(log), LAMBDA id : HasPaperRow(sess, id)), limit)

\* C16, amended: list_papers(limit) gives the first limit stored papers in
\* the order in which their rows were inserted, a paper deleted and
\* upserted again counting from its latest insertion; each as get_paper
\* gives it; upsert_paper of a stored paper leaves the order as it was.
C16_ListInRowInsertionOrder ==
    /\ \A limit \in Limits :
          /\ ListedIds(sess, limit) = Prefix(StillStored(log), limit)
          /\ \A i \in 1..Len(list_papers(sess, limit)) :
                list_papers(sess, limit)[i] = get_paper(sess, ListedIds(sess, limit)[i])
    /\ (Called("upsert_paper") /\ HasPaperRow(last.before, last.paper.arxiv_id)) =>
          ListedIds(sess, NoLimit) = ListedIds(last.before, NoLimit)

\* after a delete, the first of two stored papers, the later published of
\* the two, was upserted again and is still listed first
C16_Witness ==
    /\ Called("upsert_paper")
    /\ HasPaperRow(last.before, last.paper.arxiv_id)
    /\ Len(sess.papers) = 2
    /\ sess.papers[1].arxiv_id = last.paper.arxiv_id
    /\ sess.papers[1].published_at > sess.papers[2].published_at
    /\ \E i \in 1..Len(log) : log[i][1] = "delete"

(***************************************************************************)
(* Claims on the domain model, checked under SpecModel.                    *)
(***************************************************************************)
Dots(str) == {i \in 1..Len(str) : str[i] = Dot}

\* `archive` or `archive.subcategory`: non-empty parts, at most one dot
WellFormed(str) ==
    /\ str # <<>>
    /\ Cardinality(Dots(str)) <= 1
    /\ str[1] # Dot
    /\ str[Len(str)] # Dot

\* C19: for a category string of the form archive or archive.subcategory,
\* the identifier of from_string(s) is s; without a dot the archive is s
\* and the subcategory is None, with a dot the archive is what stands
\* before it and the subcategory what stands after it.
C19_IdentifierRoundTrip ==
    (ret.op = "from_string" /\ WellFormed(string_arg)) =>
        /\ ret.identifier = string_arg
        /\ IF Dots(string_arg) = {}
           THEN ret.category.archive = string_arg /\ ret.category.subcategory = None
           ELSE LET d == CHOOSE i \in Dots(string_arg) : TRUE
                IN  /\ ret.category.archive = SubSeq(string_arg, 1, d - 1)
                    /\ ret.category.subcategory = SubSeq(string_arg, d + 1, Len(string_arg))

C19_Witness ==
    /\ ret.op = "from_string"
    /\ WellFormed(string_arg)
    /\ Dots(string_arg) # {}
    /\ ret.category.subcategory # None
    /\ ret.identifier = string_arg

\* C20: two Category values with the same archive and the same
\* subcategory are equal and hash equal whatever their other fields; two
\* that differ in archive or in subcategory are not equal.
C20_CategoryIdentity ==
    ret.op = "eq" =>
        IF /\ pair_arg[1].archive = pair_arg[2].archive
           /\ pair_arg[1].subcategory = pair_arg[2].subcategory
        THEN ret.equal /\ ret.hash_equal
        ELSE ~ret.equal

\* equal, with one of the two described and the other not
C20_Witness ==
    /\ ret.op = "eq"
    /\ ret.equal
    /\ ret.hash_equal
    /\ pair_arg[1].subcategory = None
    /\ pair_arg[1].description # pair_arg[2].description

\* C21: a set built from two PaperDTO values with the same arxiv_id has
\* size 1, and the two are equal, whatever their other fields.
C21_PaperDTOIdentity ==
    (ret.op = "set" /\ ret.first.arxiv_id = ret.second.arxiv_id) =>
        (ret.equal /\ ret.size = 1)

\* ---- the splitting rule of the fetch loop (Spec) ----

\* the group can be split: two or more identifiers, or one archive alone
Splittable(group) ==
    \/ Len(group) >= 2
    \/ (Len(group) = 1 /\ group[1].subcategory = None)

\* C22: the group of a pass is split exactly when the result has limit
\* entries and the group has two or more identifiers or is one identifier
\* without a subcategory; an empty group is never split.
C22_SplitDecision ==
    Fetched =>
        /\ fetched.split <=> (fetched.size = Limit /\ Splittable(fetched.group))
        /\ fetched.group = <<>> => (~fetched.split /\ fetched.enqueued = <<>>)
        /\ ~fetched.split => fetched.enqueued = <<>>

\* a lone archive gave limit entries and was split
C22_Witness ==
    /\ Fetched
    /\ Len(fetched.group) = 1
    /\ fetched.group[1].subcategory = None
    /\ fetched.size = Limit
    /\ fetched.split

\* the empty group gave limit entries and was not split
C22_EmptyGroupWitness ==
    Fetched /\ fetched.group = <<>> /\ fetched.size = Limit /\ ~fetched.split

\* C23: a split of a group of n >= 2 identifiers enqueues two groups, the
\* first of n div 2 identifiers; both are non-empty and shorter than the
\* group, and one after the other they are the group in its order.
C23_BisectingSplit ==
    (Fetched /\ fetched.split /\ Len(fetched.group) >= 2) =>
        LET n == Len(fetched.group)
            first == fetched.enqueued[1]
            second == fetched.enqueued[2]
        IN  /\ Len(fetched.enqueued) = 2
            /\ Len(first) = n \div 2
            /\ Len(second) = n - (n \div 2)
            /\ Len(first) \in 1..(n - 1)
            /\ Len(second) \in 1..(n - 1)
            /\ \A i \in 1..n :
                  fetched.group[i] = IF i <= Len(first) THEN first[i]
                                     ELSE second[i - Len(first)]

\* a group of three identifiers was split into one and two
C23_Witness ==
    /\ Fetched
    /\ fetched.split
    /\ Len(fetched.group) = 3
    /\ Len(fetched.enqueued) = 2
    /\ Len(fetched.enqueued[1]) = 1
    /\ Len(fetched.enqueued[2]) = 2

\* the identifiers of the stored subcategories of an archive, in row order
KnownSubcategories(archive) ==
    LET rows == SelectSeq(pre.cats,
                          LAMBDA r : r.archive = archive /\ r.subcategory # None)
    IN  [i \in 1..Len(rows) |->
            CategoryIdentifier(rows[i].archive, rows[i].subcategory)]

\* C24: a split of a lone archive enqueues exactly one group, holding the
\* identifiers of all its known subcategories; with no known subcategory
\* nothing is enqueued, nothing is raised and the result is kept.
C24_ArchiveExpansion ==
    (Fetched /\ fetched.split /\ Len(fetched.group) = 1) =>
        LET known == KnownSubcategories(fetched.group[1].archive)
        IN  IF known # <<>>
            THEN fetched.enqueued = <<known>>
            ELSE /\ fetched.enqueued = <<>>
                 /\ exc = NoError
                 /\ fetched.dropped = {}
                 /\ Cardinality(paper_dtos) >= 1

\* an archive with three known subcategories was expanded into one group
C24_Witness ==
    /\ Fetched
    /\ fetched.split
    /\ Len(fetched.group) = 1
    /\ Len(fetched.enqueued) = 1
    /\ Len(fetched.enqueued[1]) = 3

\* an archive with no known subcategory gave limit entries
C24_NoSubcategoryWitness ==
    /\ Fetched
    /\ fetched.split
    /\ Len(fetched.group) = 1
    /\ KnownSubcategories(fetched.group[1].archive) = <<>>
    /\ fetched.enqueued = <<>>
    /\ Cardinality(paper_dtos) >= Limit

\* ---- the order of the fetch loop (Spec) ----

\* a step that calls fetch_latest_papers
FeedCall == calls'.feed_calls # calls.feed_calls

\* what a step of the call does to the queue and to the feed
FifoStep ==
    /\ FeedCall =>
          /\ calls'.feed_calls = calls.feed_calls + 1
          /\ queue # <<>>
          /\ fetched'.group = Head(queue)
          /\ (fetched'.raised = NoError) =>
                /\ queue' = Tail(queue) \o fetched'.enqueued
                /\ calls'.enqueued = calls.enqueued + Len(fetched'.enqueued)
                /\ fetched'.split <=>
                      (fetched'.size = Limit /\ Splittable(fetched'.group))
                /\ (~fetched'.split) => (fetched'.enqueued = <<>>)
    /\ (pc = "fetching" /\ queue' # queue) => FeedCall
    /\ (pc = "fetching" /\ calls'.enqueued # calls.enqueued) => FeedCall

\* C25: the queue is worked first in, first out, one group at a time: a
\* step makes one feed call, for the group at the head of the queue; the
\* groups of its split go to the back of the queue, behind the groups that
\* were waiting; the split is decided from the result of that call alone;
\* the queue only changes with a feed call; and the feed calls of a call
\* that ends are 1 plus the groups enqueued by splits.
C25_FifoOneCallPerGroup ==
    /\ []((pc = "fetching" /\ exc = NoError) =>
             calls.feed_calls + Len(queue) = calls.enqueued)
    /\ [](LoopDone => calls.feed_calls = calls.enqueued)
    /\ [][FifoStep]_vars

\* a split put its groups behind a group that was waiting
C25_Witness ==
    /\ pc = "fetching"
    /\ Fetched
    /\ fetched.enqueued # <<>>
    /\ Len(queue) > Len(fetched.enqueued)
    /\ queue[1] \notin Range(fetched.enqueued)

\* ---- the end of the fetch loop (FairSpec) ----

\* the while loop is over: its queue is empty, or the feed raised
LoopOver == queue = <<>> \/ exc # NoError

\* C26: the fetch loop ends: whatever the feed answers, a result of limit
\* entries on every call included, the queue of a call that has started
\* becomes empty (or the feed raises) after a bounded number of feed calls.
C26_FetchTerminates ==
    /\ (pc = "fetching") ~> LoopOver
    /\ [](calls.feed_calls < MaxFeedCalls)

\* the loop ended after every call of a long run gave limit entries
C26_Witness ==
    /\ LoopDone
    /\ calls.feed_calls >= 10
    /\ calls.feed_calls = calls.enqueued
    /\ Fetched
    /\ fetched.size = Limit

\* ---- the categories of the returned papers (Spec) ----

\* the papers have been built from the fetched entries
Built == pc \in {"exiting", "returned"} /\ exc = NoError

\* the category rows the repository held for an identifier during the call
StoredRows(category) ==
    {r \in Range(pre.cats) : r.archive = category.archive /\
                             r.subcategory = category.subcategory}

\* the category is the one of category_str, with the stored descriptive
\* fields when the repository holds it and none otherwise
Enriched(category, category_str) ==
    /\ identifier(category) = category_str
    /\ IF StoredRows(category) # {}
       THEN \E r \in StoredRows(category) :
               /\ category.archive_name = r.archive_name
               /\ category.category_name = r.category_name
               /\ category.description = r.description
       ELSE /\ category.archive_name = None
            /\ category.category_name = None
            /\ category.description = None

\* C27: every returned paper is built from a fetched entry, and its
\* categories are, position by position, those of the category strings of
\* the entry: with the stored descriptive fields when the repository holds
\* the identifier, and with the identifier alone otherwise.
C27_CategoryEnrichment ==
    Built =>
        \A i \in 1..Len(papers) :
            \E d \in paper_dtos :
                /\ d.arxiv_id = papers[i].arxiv_id
                /\ d.title = papers[i].title
                /\ Len(papers[i].categories) = Len(d.categories)
                /\ \A j \in 1..Len(d.categories) :
                      Enriched(papers[i].categories[j], d.categories[j])

\* a returned paper has a stored category first and a synthesized one second
C27_Witness ==
    /\ pc = "returned"
    /\ \E i \in 1..Len(papers) :
          /\ Len(papers[i].categories) = 2
          /\ StoredRows(papers[i].categories[1]) # {}
          /\ papers[i].categories[1].description # None
          /\ StoredRows(papers[i].categories[2]) = {}
          /\ papers[i].categories[2].archive_name = None

\* the distinct category strings of the fetched entries
CategoryStrings == UNION {Range(d.categories) : d \in paper_dtos}

\* C28: one call of fetch_and_store_latest_papers asks the repository for
\* a category at most once for each distinct category string of the
\* fetched entries, however many entries name it.
C28_OneLookupPerCategoryString ==
    Built => calls.lookups <= Cardinality(CategoryStrings)

(***************************************************************************)
(* Claims on upsert_paper and the stored categories, checked under         *)
(* SpecStore.                                                              *)
(***************************************************************************)
\* the category ids of the rows of a paper
CategoryIdsOf(store, arxiv_id) ==
    UNION {r.categories : r \in {x \in Range(store.papers) : x.arxiv_id = arxiv_id}}

\* C29: upsert_paper of a paper with an empty category list, in a store
\* that holds categories, leaves the paper with no category association
\* and adds no category row, for a new paper and for one that replaces a
\* version with categories.
C29_EmptyCategoryList ==
    (Called("upsert_paper") /\ last.paper.categories = <<>> /\ last.before.cats # <<>>) =>
        /\ HasPaperRow(sess, last.paper.arxiv_id)
        /\ CategoryIdsOf(sess, last.paper.arxiv_id) = {}
        /\ sess.cats = last.before.cats

\* the keys of the category rows of a store
StoredKeys(store) == {RowKey(r) : r \in Range(store.cats)}

\* the keys whose category the last call was asked to write or remove
WrittenKeys ==
    IF last.op = "upsert_category" THEN {CategoryKey(last.category)}
    ELSE IF last.op = "delete_category" THEN {last.key}
    ELSE {}

\* C30: a call other than upsert_category or delete_category of that
\* category leaves every stored category as it is: get_category gives the
\* same archive_name, category_name and description after upsert_paper,
\* whatever the Category objects of the paper carry; a category that
\* upsert_paper created is retrievable after it and, as any stored
\* category, stays so until delete_category removes it.
C30_UpsertPaperKeepsDescriptions ==
    /\ last.op # "none" =>
          \A key \in StoredKeys(last.before) \ WrittenKeys :
              /\ get_category(sess, key[1], key[2]) # NoneObject
              /\ get_category(sess, key[1], key[2]) =
                    get_category(last.before, key[1], key[2])
    /\ Called("upsert_paper") =>
          \A i \in 1..Len(last.paper.categories) :
              LET c == last.paper.categories[i]
              IN  /\ get_category(sess, c.archive, c.subcategory) # NoneObject
                  /\ CategoryEq(get_category(sess, c.archive, c.subcategory), c)

\* upsert_paper named a stored category with other descriptive values
C30_Witness ==
    /\ Called("upsert_paper")
    /\ \E i \in 1..Len(last.paper.categories) :
          LET c == last.paper.categories[i]
              stored == get_category(last.before, c.archive, c.subcategory)
          IN  /\ HasCategoryRow(last.before, CategoryKey(c))
              /\ stored.description # None
              /\ c.description # None
              /\ stored.description # c.description
              /\ get_category(sess, c.archive, c.subcategory) = stored

====
